---- MODULE Spec2Model ----
(***************************************************************************)
(* Model of the monitored resource registry of python_stack:               *)
(*   src/src/python_stack/core/utils/monitored/{enums,models,service}.py   *)
(*                                                                         *)
(* A MonitoredService keeps a dict of MonitoredResource records, one per   *)
(* identifier, and two cached aggregates.  register_monitored_resource     *)
(* creates a reactivex Subject per (identifier, monitor type), subscribes  *)
(* _handle_status_update to it and emits the initial status; the caller    *)
(* pushes later statuses with subject.on_next(status).                     *)
(***************************************************************************)
EXTENDS Naturals, FiniteSets, Sequences, TLC

\* ------------------------------------------------------------------ bounds

\* Number of distinct identifiers the callers use.
MaxIdentifiers == 2

\* Number of threads that push at the same time.
MaxThreads == 2

\* ------------------------------------------------------------------- enums

\* enums.py: StrEnum members.  A member is modelled by its enum class and its
\* string value: isinstance() looks at the class, == at the value.
Member(enum, value) == [enum |-> enum, value |-> value]

MonitorResourceTypeEnum ==
    {"database", "cache", "queue", "service", "http_client", "application", "other"}

HEALTH == "health"
READINESS == "readiness"
MonitorTypeEnum == {HEALTH, READINESS}

HEALTHY == Member("HealthStatusEnum", "healthy")
UNHEALTHY == Member("HealthStatusEnum", "unhealthy")
HEALTH_UNKNOWN == Member("HealthStatusEnum", "unknown")
HEALTH_DISABLED == Member("HealthStatusEnum", "disabled")
HealthStatusEnum == {HEALTHY, UNHEALTHY, HEALTH_UNKNOWN, HEALTH_DISABLED}

READY == Member("ReadinessStatusEnum", "ready")
NOT_READY == Member("ReadinessStatusEnum", "not_ready")
READINESS_UNKNOWN == Member("ReadinessStatusEnum", "unknown")
READINESS_DISABLED == Member("ReadinessStatusEnum", "disabled")
ReadinessStatusEnum == {READY, NOT_READY, READINESS_UNKNOWN, READINESS_DISABLED}

\* Python's None, in a status field.
None == Member("NoneType", "None")

\* An attribute that was never assigned: reading it raises AttributeError.
AttributeError == Member("AttributeError", "AttributeError")

\* StrEnum equality (a == b) compares the string values.
StrEq(a, b) == a.value = b.value

\* `status in E` for a StrEnum class E: true when the value is one of E's.
InEnum(status, E) == \E m \in E : m.value = status.value

\* isinstance(status, E).
IsInstance(status, E) == \E m \in E : m.enum = status.enum

\* ------------------------------------------------------------------ inputs

IdentifierNames == <<"db1", "app", "resource_1", "resource_2">>
Identifiers == {IdentifierNames[i] : i \in 1..MaxIdentifiers}

\* Resource types the owners of an identifier may pass: the first identifier
\* is registered under either of two labels, the others under one.
ResourceTypeInputs(identifier) ==
    IF identifier = IdentifierNames[1]
    THEN {"database", "application"}
    ELSE {"application"}

\* Statuses a caller may pass or push for a monitor type: every member of the
\* type's own status enum, and two members of the other enum, one whose value
\* the own enum does not have and one whose value ("unknown") it has too.
StatusInputs(monitor_type) ==
    IF monitor_type = HEALTH
    THEN HealthStatusEnum \cup {READY, READINESS_UNKNOWN}
    ELSE ReadinessStatusEnum \cup {HEALTHY, HEALTH_UNKNOWN}

\* The (monitor_type, initial_status) pairs a caller may register with: either
\* member with the statuses above, and a string that is no member with HEALTHY.
RegistrationInputs ==
    UNION {{<<monitor_type, status>> : status \in StatusInputs(monitor_type)} :
              monitor_type \in MonitorTypeEnum}
    \cup {<<"NOT-VALID-TYPE", HEALTHY>>}

\* Monitor types a caller may pass to the validation: the two members, and the
\* strings of the unit test that are no member.
MonitorTypeInputs == MonitorTypeEnum \cup {"HEALTH", "READINESS", "NOT-VALID-TYPE"}

\* Every member of the two status enums.
AllStatuses == HealthStatusEnum \cup ReadinessStatusEnum

\* ------------------------------------------------------------------- state

VARIABLES
    _monitored_resources,   \* MonitoredService._monitored_resources: identifier -> MonitoredResource
    _health_status,         \* MonitoredService._health_status
    _readiness_status,      \* MonitoredService._readiness_status
    _readiness_resolver,    \* MonitoredService._readiness_resolver
    subjects,               \* the Subjects created so far (the handles the callers hold)
    subscribed,             \* the Subjects the service's lambda is subscribed to
    processed,              \* monitor types of which an update has been processed
    rejected,               \* handles a push through which has raised (recorded by SpecUnit)
    threads,                \* where each pushing thread is in _handle_status_update (SpecThreads)
    last,                   \* the call that has just returned or raised, if any
    monitored,              \* objects built on the monitored mixins: identifier -> local copies
    lifecycle,              \* the application: "none", "constructed" or "started"
    response,               \* what an endpoint answered to the latest request
    plugins_default,        \* AbstractPluginsApplication.plugins_default (class attribute)
    applications,           \* the AbstractPluginsApplication instances constructed so far
    yaml_data,              \* YamlFileReader._inject_environment_variables: the string
    _match,                 \* YamlFileReader._inject_environment_variables: the loop's match
    environ                 \* os.environ

vars == <<_monitored_resources, _health_status, _readiness_status,
          _readiness_resolver, subjects, subscribed, processed, rejected,
          threads, last, monitored, lifecycle, response, plugins_default,
          applications, yaml_data, _match, environ>>

\* What the registry's methods never touch: the objects built on it, the
\* plugins and the YAML reader.
elsewhere == <<monitored, lifecycle, response, plugins_default, applications,
               yaml_data, _match, environ>>

\* A Subject with the subscription of _register_monitored_resource_subject: the
\* lambda's captured identifier and monitor_type; serial tells apart the
\* Subject objects created for the same pair.
Subject(identifier, monitor_type, serial) ==
    [identifier |-> identifier, monitor_type |-> monitor_type, serial |-> serial]

NoSubject == Subject("None", "None", 0)

\* models.py: MonitoredStatusUpdate.
MonitoredStatusUpdate(identifier, monitor_type, status) ==
    [identifier |-> identifier, monitor_type |-> monitor_type, status |-> status]

\* models.py: MonitoredResource.
MonitoredResource(types, resource_type, identifier, health_status, readiness_status, health_subject, readiness_subject) ==
    [types |-> types, resource_type |-> resource_type, identifier |-> identifier,
     health_status |-> health_status, readiness_status |-> readiness_status,
     health_subject |-> health_subject, readiness_subject |-> readiness_subject]

\* dict[key] = value
DictSet(d, key, value) ==
    [k \in DOMAIN d \cup {key} |-> IF k = key THEN value ELSE d[k]]

EmptyDict == [k \in {} |-> None]

\* ---------------------------------------------------------------- resolvers

\* Variant: when every health monitored resource is disabled, so is the
\* aggregate.
HealthStatusServiceResolver_DisabledWhenAllDisabled(monitored_resources) ==
    IF \E k \in DOMAIN monitored_resources :
          /\ HEALTH \in monitored_resources[k].types
          /\ StrEq(monitored_resources[k].health_status, UNHEALTHY)
    THEN UNHEALTHY
    ELSE IF \A k \in DOMAIN monitored_resources :
               HEALTH \in monitored_resources[k].types
                  => StrEq(monitored_resources[k].health_status, HEALTH_DISABLED)
    THEN HEALTH_DISABLED
    ELSE HEALTHY

\* Variant: UNHEALTHY only when every health monitored resource is unhealthy.
HealthStatusServiceResolver_All(monitored_resources) ==
    IF /\ \E k \in DOMAIN monitored_resources :
             HEALTH \in monitored_resources[k].types
       /\ \A k \in DOMAIN monitored_resources :
             HEALTH \in monitored_resources[k].types
                => StrEq(monitored_resources[k].health_status, UNHEALTHY)
    THEN UNHEALTHY
    ELSE HEALTHY

\* Variant: a health monitored resource whose status is unknown makes the
\* aggregate unknown.
HealthStatusServiceResolver_DegradesOnUnknown(monitored_resources) ==
    IF \E k \in DOMAIN monitored_resources :
          /\ HEALTH \in monitored_resources[k].types
          /\ StrEq(monitored_resources[k].health_status, UNHEALTHY)
    THEN UNHEALTHY
    ELSE IF \E k \in DOMAIN monitored_resources :
          /\ HEALTH \in monitored_resources[k].types
          /\ StrEq(monitored_resources[k].health_status, HEALTH_UNKNOWN)
    THEN HEALTH_UNKNOWN
    ELSE HEALTHY

\* HealthStatusServiceResolver.resolve: HEALTHY unless the loop meets a
\* resource with HEALTH in its types whose health_status == UNHEALTHY.
HealthStatusServiceResolver(monitored_resources) ==
    IF \E k \in DOMAIN monitored_resources :
          /\ HEALTH \in monitored_resources[k].types
          /\ StrEq(monitored_resources[k].health_status, UNHEALTHY)
    THEN UNHEALTHY
    ELSE HEALTHY

\* Variant: a readiness monitored resource that is not READY (unknown or
\* disabled included) makes the aggregate NOT_READY.
ReadinessStatusServiceResolver_DegradesOnUnknown(monitored_resources) ==
    IF \E k \in DOMAIN monitored_resources :
          /\ READINESS \in monitored_resources[k].types
          /\ ~ StrEq(monitored_resources[k].readiness_status, READY)
    THEN NOT_READY
    ELSE READY

\* ReadinessStatusServiceResolver.resolve.
ReadinessStatusServiceResolver(monitored_resources) ==
    IF \E k \in DOMAIN monitored_resources :
          /\ READINESS \in monitored_resources[k].types
          /\ StrEq(monitored_resources[k].readiness_status, NOT_READY)
    THEN NOT_READY
    ELSE READY

\* ------------------------------------------------------------------ service

\* The fields of a MonitoredService that its methods read and write.
Service(monitored_resources, health_status, readiness_status) ==
    [monitored_resources |-> monitored_resources,
     health_status |-> health_status,
     readiness_status |-> readiness_status]

Self == Service(_monitored_resources, _health_status, _readiness_status)

\* MonitoredService.get_health_status
get_health_status == _health_status

\* MonitoredService.get_readiness_status (AttributeError: the read raises)
get_readiness_status == _readiness_status

\* Variant: the aggregate is left as it was.
CalculateHealthStatus_Omitted(self) == self

\* Variant: an UNHEALTHY aggregate is never recomputed.
CalculateHealthStatus_Sticky(self) ==
    IF self.health_status = UNHEALTHY
    THEN self
    ELSE [self EXCEPT !.health_status =
            HealthStatusServiceResolver(self.monitored_resources)]

\* MonitoredService._calculate_health_status
CalculateHealthStatus(self) ==
    [self EXCEPT !.health_status =
        HealthStatusServiceResolver(self.monitored_resources)]

\* Variant: a readiness update recomputes both aggregates.
CalculateReadinessStatus_Both(self) ==
    [self EXCEPT !.readiness_status =
                    ReadinessStatusServiceResolver(self.monitored_resources),
                 !.health_status =
                    HealthStatusServiceResolver(self.monitored_resources)]

\* MonitoredService._calculate_readiness_status
CalculateReadinessStatus(self) ==
    [self EXCEPT !.readiness_status =
        ReadinessStatusServiceResolver(self.monitored_resources)]

\* Variant: the READINESS case is missing.
ValidateAssociationOfTypeAndStatus_HealthOnly(monitor_type, status) ==
    CASE monitor_type = HEALTH ->
            ~ (\/ ~ InEnum(status, HealthStatusEnum)
               \/ ~ IsInstance(status, HealthStatusEnum))
      [] OTHER -> FALSE

\* Variant: only the value is compared, not the class of the status.
ValidateAssociationOfTypeAndStatus_ValueOnly(monitor_type, status) ==
    CASE monitor_type = HEALTH -> InEnum(status, HealthStatusEnum)
      [] monitor_type = READINESS -> InEnum(status, ReadinessStatusEnum)
      [] OTHER -> FALSE

\* Variant: no validation, every pair is accepted.
ValidateAssociationOfTypeAndStatus_Skipped(monitor_type, status) == TRUE

\* MonitoredService._validate_association_of_type_and_status: TRUE when it
\* returns, FALSE when it raises ValueError.
ValidateAssociationOfTypeAndStatus(monitor_type, status) ==
    CASE monitor_type = HEALTH ->
            ~ (~ InEnum(status, HealthStatusEnum)
               \/ ~ IsInstance(status, HealthStatusEnum))
      [] monitor_type = READINESS ->
            ~ (~ InEnum(status, ReadinessStatusEnum)
               \/ ~ IsInstance(status, ReadinessStatusEnum))
      [] OTHER -> FALSE

\* The outcome of a method: whether it raised, and the service afterwards.
Outcome(raised, self) == [raised |-> raised, self |-> self]

\* Variant: the status is set on every resource of the monitor type.
HandleStatusUpdate_SetsEveryResource(self, status_updated) ==
    LET everywhere ==
            [k \in DOMAIN self.monitored_resources |->
                IF status_updated.monitor_type \notin self.monitored_resources[k].types
                THEN self.monitored_resources[k]
                ELSE IF status_updated.monitor_type = HEALTH
                THEN [self.monitored_resources[k] EXCEPT
                          !.health_status = status_updated.status]
                ELSE [self.monitored_resources[k] EXCEPT
                          !.readiness_status = status_updated.status]]
    IN  IF ~ ValidateAssociationOfTypeAndStatus(status_updated.monitor_type,
                                                status_updated.status)
        THEN Outcome(TRUE, self)
        ELSE IF status_updated.identifier \notin DOMAIN self.monitored_resources
        THEN Outcome(TRUE, self)
        ELSE IF status_updated.monitor_type = HEALTH
        THEN Outcome(FALSE, CalculateHealthStatus(
                [self EXCEPT !.monitored_resources = everywhere]))
        ELSE Outcome(FALSE, CalculateReadinessStatus(
                [self EXCEPT !.monitored_resources = everywhere]))

\* Variant: an update for an identifier without a record creates the record.
HandleStatusUpdate_CreatesMissing(self, status_updated) ==
    LET found ==
            IF status_updated.identifier \in DOMAIN self.monitored_resources
            THEN self
            ELSE [self EXCEPT !.monitored_resources =
                    DictSet(@, status_updated.identifier,
                            MonitoredResource({status_updated.monitor_type}, "other",
                                              status_updated.identifier,
                                              None, None, NoSubject, NoSubject))]
    IN  IF ~ ValidateAssociationOfTypeAndStatus(status_updated.monitor_type,
                                                status_updated.status)
        THEN Outcome(TRUE, self)
        ELSE IF status_updated.monitor_type = HEALTH
        THEN Outcome(FALSE, CalculateHealthStatus(
                [found EXCEPT !.monitored_resources[status_updated.identifier].health_status =
                    status_updated.status]))
        ELSE Outcome(FALSE, CalculateReadinessStatus(
                [found EXCEPT !.monitored_resources[status_updated.identifier].readiness_status =
                    status_updated.status]))

\* Variant: a DISABLED status also takes the monitor type off the resource.
HandleStatusUpdate_DropsDisabled(self, status_updated) ==
    LET dropped(ss) ==
            IF status_updated.status.value = "disabled"
            THEN [ss EXCEPT !.monitored_resources[status_updated.identifier].types =
                                @ \ {status_updated.monitor_type}]
            ELSE ss
    IN  IF ~ ValidateAssociationOfTypeAndStatus(status_updated.monitor_type,
                                                status_updated.status)
        THEN Outcome(TRUE, self)
        ELSE IF status_updated.identifier \notin DOMAIN self.monitored_resources
        THEN Outcome(TRUE, self)
        ELSE IF status_updated.monitor_type = HEALTH
        THEN Outcome(FALSE, CalculateHealthStatus(dropped(
                [self EXCEPT !.monitored_resources[status_updated.identifier].health_status =
                    status_updated.status])))
        ELSE Outcome(FALSE, CalculateReadinessStatus(dropped(
                [self EXCEPT !.monitored_resources[status_updated.identifier].readiness_status =
                    status_updated.status])))

\* Variant: the status is stored and no aggregate is recomputed.
HandleStatusUpdate_NoRecalculation(self, status_updated) ==
    IF ~ ValidateAssociationOfTypeAndStatus(status_updated.monitor_type,
                                            status_updated.status)
    THEN Outcome(TRUE, self)
    ELSE IF status_updated.identifier \notin DOMAIN self.monitored_resources
    THEN Outcome(TRUE, self)
    ELSE IF status_updated.monitor_type = HEALTH
    THEN Outcome(FALSE,
            [self EXCEPT !.monitored_resources[status_updated.identifier].health_status =
                status_updated.status])
    ELSE Outcome(FALSE,
            [self EXCEPT !.monitored_resources[status_updated.identifier].readiness_status =
                status_updated.status])

\* MonitoredService._handle_status_update
HandleStatusUpdate(self, status_updated) ==
    IF ~ ValidateAssociationOfTypeAndStatus(status_updated.monitor_type,
                                            status_updated.status)
    THEN Outcome(TRUE, self)
    ELSE IF status_updated.identifier \notin DOMAIN self.monitored_resources
    THEN Outcome(TRUE, self)
    ELSE IF status_updated.monitor_type = HEALTH
    THEN Outcome(FALSE, CalculateHealthStatus(
            [self EXCEPT !.monitored_resources[status_updated.identifier].health_status =
                status_updated.status]))
    ELSE Outcome(FALSE, CalculateReadinessStatus(
            [self EXCEPT !.monitored_resources[status_updated.identifier].readiness_status =
                status_updated.status]))

\* Subject.on_next(status) on a Subject created by
\* _register_monitored_resource_subject: the subscribed lambda wraps the status
\* and calls _handle_status_update, whose exception reaches the pusher.
SubjectOnNext(self, subject, status) ==
    HandleStatusUpdate(self,
        MonitoredStatusUpdate(subject.identifier, subject.monitor_type, status))

\* Variant: a subscription whose lambda has raised is detached.
SubscribedAfter_DetachedOnError(observers, subject, outcome) ==
    IF outcome.raised THEN observers \ {subject} ELSE observers

\* The subscriptions after subject.on_next has run the lambda: the Disposable
\* that subscribe returned was dropped and neither the lambda nor
\* _handle_status_update completes, errors or disposes the Subject, so the
\* lambda stays subscribed, also when it has raised.
SubscribedAfter(observers, subject, outcome) == observers

\* subject.on_next(status) by a holder of the handle: the Subject hands the
\* status to its subscribed lambda, and to nobody when it has none.
Delivered(self, observers, subject, status) ==
    IF subject \in observers
    THEN SubjectOnNext(self, subject, status)
    ELSE Outcome(FALSE, self)

\* Variant: the initial status is not emitted.
EmitInitialStatus_Omitted(self, subject, initial_status) == Outcome(FALSE, self)

\* register_monitored_resource, "Emit the initial status":
\* subject.on_next(initial_status).
EmitInitialStatus(self, subject, initial_status) ==
    SubjectOnNext(self, subject, initial_status)

\* reactivex.Subject(): a new object, different from those already created.
NewSubject(identifier, monitor_type) ==
    Subject(identifier, monitor_type,
            1 + Cardinality({s \in subjects : /\ s.identifier = identifier
                                               /\ s.monitor_type = monitor_type}))

\* The service and the handles in existence, as a call finds them.
Before(self, handles) == [self |-> self, subjects |-> handles]

\* The record of a call, as its caller sees it when it returns or raises: the
\* arguments, whether it raised, the handle it returned, and what it found.
Call(op, monitor_type, resource_type, identifier, status, raised, returned, before) ==
    [op |-> op, monitor_type |-> monitor_type, resource_type |-> resource_type,
     identifier |-> identifier, status |-> status, raised |-> raised,
     returned |-> returned, before |-> before]

\* No call has just returned: the callers are between calls.
Idle == Call("idle", "None", "None", "None", None, FALSE, NoSubject,
             Before(Service(EmptyDict, None, None), {}))

\* What a call leaves in the service's fields.
Store(self) ==
    /\ _monitored_resources' = self.monitored_resources
    /\ _health_status' = self.health_status
    /\ _readiness_status' = self.readiness_status
    /\ UNCHANGED _readiness_resolver

\* The threads that push through handles, and a thread that is not inside
\* _handle_status_update.
Threads == 1..MaxThreads
Thread(pc, monitor_type, resolved) ==
    [pc |-> pc, monitor_type |-> monitor_type, resolved |-> resolved]
IdleThread == Thread("idle", "None", None)

\* What an endpoint answered: the status code it set on the response, the
\* value in the body, whether the request failed with an unhandled exception
\* instead, and the call that had last returned when the request came.
Response(endpoint, status_code, body, raised, after) ==
    [endpoint |-> endpoint, status_code |-> status_code, body |-> body,
     raised |-> raised, after |-> after]

\* No request has been answered since the registry last changed.
NoResponse == Response("None", 0, None, FALSE, Idle)

\* AbstractPluginsApplication.plugins_default as the class declares it.
PluginsDefaultDeclared == << >>

\* The outcome of re.search in the loop of _inject_environment_variables:
\* "pending" before the search of an iteration, "found" with the matched text
\* and the two groups, "none" when the search returned None and the loop
\* has ended.
Match(state, group0, group1, group2) ==
    [state |-> state, group0 |-> group0, group1 |-> group1, group2 |-> group2]

Pending == Match("pending", << >>, << >>, << >>)

\* MonitoredService.__init__, and the objects around it before they are used.
Constructed ==
    /\ _monitored_resources = EmptyDict
    /\ _health_status = HEALTH_UNKNOWN
    /\ _readiness_status = AttributeError
    /\ _readiness_resolver = READINESS_UNKNOWN
    /\ subjects = {}
    /\ subscribed = {}
    /\ processed = {}
    /\ rejected = {}
    /\ threads = [t \in Threads |-> IdleThread]
    /\ last = Idle
    /\ monitored = EmptyDict
    /\ lifecycle = "none"
    /\ response = NoResponse
    /\ plugins_default = PluginsDefaultDeclared
    /\ applications = << >>

Init ==
    /\ Constructed
    /\ yaml_data = << >>
    /\ _match = Pending
    /\ environ = EmptyDict

\* Variant: a new record starts with UNKNOWN for both statuses.
RegisteredResource_BothStatuses(self, monitor_type, resource_type, identifier, initial_status, subject) ==
    LET resource ==
            IF identifier \in DOMAIN self.monitored_resources
            THEN self.monitored_resources[identifier]
            ELSE MonitoredResource({}, resource_type, identifier,
                                   HEALTH_UNKNOWN, READINESS_UNKNOWN,
                                   NoSubject, NoSubject)
        typed == [resource EXCEPT !.types = @ \cup {monitor_type}]
    IN  IF monitor_type = HEALTH
        THEN [typed EXCEPT !.health_status = initial_status,
                           !.health_subject = subject]
        ELSE [typed EXCEPT !.readiness_status = initial_status,
                           !.readiness_subject = subject]

\* Variant: every registration sets the resource type of the record.
RegisteredResource_Retyped(self, monitor_type, resource_type, identifier, initial_status, subject) ==
    LET resource ==
            IF identifier \in DOMAIN self.monitored_resources
            THEN [self.monitored_resources[identifier]
                     EXCEPT !.resource_type = resource_type]
            ELSE MonitoredResource({}, resource_type, identifier,
                                   None, None, NoSubject, NoSubject)
        typed == [resource EXCEPT !.types = @ \cup {monitor_type}]
    IN  IF monitor_type = HEALTH
        THEN [typed EXCEPT !.health_status = initial_status,
                           !.health_subject = subject]
        ELSE [typed EXCEPT !.readiness_status = initial_status,
                           !.readiness_subject = subject]

\* Variant: a new record is built whether or not the identifier has one.
RegisteredResource_Replaced(self, monitor_type, resource_type, identifier, initial_status, subject) ==
    LET typed == MonitoredResource({monitor_type}, resource_type, identifier,
                                   None, None, NoSubject, NoSubject)
    IN  IF monitor_type = HEALTH
        THEN [typed EXCEPT !.health_status = initial_status,
                           !.health_subject = subject]
        ELSE [typed EXCEPT !.readiness_status = initial_status,
                           !.readiness_subject = subject]

\* The resource register_monitored_resource stores: the existing one or a new
\* one, with the monitor type added and the initial status and subject set.
RegisteredResource(self, monitor_type, resource_type, identifier, initial_status, subject) ==
    LET resource ==
            IF identifier \in DOMAIN self.monitored_resources
            THEN self.monitored_resources[identifier]
            ELSE MonitoredResource({}, resource_type, identifier,
                                   None, None, NoSubject, NoSubject)
        typed == [resource EXCEPT !.types = @ \cup {monitor_type}]
    IN  IF monitor_type = HEALTH
        THEN [typed EXCEPT !.health_status = initial_status,
                           !.health_subject = subject]
        ELSE [typed EXCEPT !.readiness_status = initial_status,
                           !.readiness_subject = subject]

\* Variant: no duplicate check.
AlreadyRegistered_Omitted(self, monitor_type, identifier) == FALSE

\* The duplicate check of register_monitored_resource: TRUE when it raises.
AlreadyRegistered(self, monitor_type, identifier) ==
    /\ identifier \in DOMAIN self.monitored_resources
    /\ monitor_type \in self.monitored_resources[identifier].types

\* Variant: the initial status is emitted before the resource is stored.
RegisterMonitoredResource_EmitsBeforeStore(monitor_type, resource_type, identifier, initial_status) ==
    IF \/ ~ ValidateAssociationOfTypeAndStatus(monitor_type, initial_status)
       \/ AlreadyRegistered(Self, monitor_type, identifier)
    THEN /\ last' = Call("register", monitor_type, resource_type, identifier,
                         initial_status, TRUE, NoSubject, Before(Self, subjects))
         /\ UNCHANGED <<_monitored_resources, _health_status, _readiness_status,
                        _readiness_resolver, subjects, subscribed, processed>>
    ELSE LET subject == NewSubject(identifier, monitor_type)
             emitted == EmitInitialStatus(Self, subject, initial_status)
             stored == [emitted.self EXCEPT !.monitored_resources =
                          DictSet(@, identifier,
                                  RegisteredResource(emitted.self, monitor_type,
                                                     resource_type, identifier,
                                                     initial_status, subject))]
         IN  /\ Store(IF emitted.raised THEN Self ELSE stored)
             /\ subjects' = subjects \cup {subject}
             /\ subscribed' = SubscribedAfter(subscribed \cup {subject}, subject, emitted)
             /\ processed' = IF emitted.raised THEN processed
                             ELSE processed \cup {monitor_type}
             /\ last' = Call("register", monitor_type, resource_type, identifier,
                             initial_status, emitted.raised,
                             IF emitted.raised THEN NoSubject ELSE subject,
                             Before(Self, subjects))

\* MonitoredService.register_monitored_resource
RegisterMonitoredResource(monitor_type, resource_type, identifier, initial_status) ==
    IF \/ ~ ValidateAssociationOfTypeAndStatus(monitor_type, initial_status)
       \/ AlreadyRegistered(Self, monitor_type, identifier)
    THEN /\ last' = Call("register", monitor_type, resource_type, identifier,
                         initial_status, TRUE, NoSubject, Before(Self, subjects))
         /\ UNCHANGED <<_monitored_resources, _health_status, _readiness_status,
                        _readiness_resolver, subjects, subscribed, processed>>
    ELSE LET subject == NewSubject(identifier, monitor_type)
             stored == [Self EXCEPT !.monitored_resources =
                          DictSet(@, identifier,
                                  RegisteredResource(Self, monitor_type, resource_type,
                                                     identifier, initial_status, subject))]
             emitted == EmitInitialStatus(stored, subject, initial_status)
         IN  /\ Store(emitted.self)
             /\ subjects' = subjects \cup {subject}
             /\ subscribed' = SubscribedAfter(subscribed \cup {subject}, subject, emitted)
             /\ processed' = IF emitted.raised THEN processed
                             ELSE processed \cup {monitor_type}
             /\ last' = Call("register", monitor_type, resource_type, identifier,
                             initial_status, emitted.raised,
                             IF emitted.raised THEN NoSubject ELSE subject,
                             Before(Self, subjects))

\* register_monitored_resource on the service `self`: whether it raised, the
\* service it leaves, the handle it returns and the Subjects it created.
Registered(self, monitor_type, resource_type, identifier, initial_status) ==
    IF \/ ~ ValidateAssociationOfTypeAndStatus(monitor_type, initial_status)
       \/ AlreadyRegistered(self, monitor_type, identifier)
    THEN [raised |-> TRUE, self |-> self, subject |-> NoSubject, created |-> {}]
    ELSE LET subject == NewSubject(identifier, monitor_type)
             stored == [self EXCEPT !.monitored_resources =
                          DictSet(@, identifier,
                                  RegisteredResource(self, monitor_type, resource_type,
                                                     identifier, initial_status, subject))]
             emitted == EmitInitialStatus(stored, subject, initial_status)
         IN  [raised |-> emitted.raised, self |-> emitted.self,
              subject |-> IF emitted.raised THEN NoSubject ELSE subject,
              created |-> {subject}]

\* A caller pushes a status through a handle it was given.
Push(subject, status) ==
    LET pushed == Delivered(Self, subscribed, subject, status)
    IN  /\ Store(pushed.self)
        /\ subscribed' = SubscribedAfter(subscribed, subject, pushed)
        /\ processed' = IF pushed.raised THEN processed
                        ELSE processed \cup {subject.monitor_type}
        /\ last' = Call("push", subject.monitor_type, "None", subject.identifier,
                        status, pushed.raised, NoSubject, Before(Self, subjects))
        /\ UNCHANGED subjects

Register ==
    /\ last = Idle
    /\ \E input \in RegistrationInputs, identifier \in Identifiers :
        \E resource_type \in ResourceTypeInputs(identifier) :
            RegisterMonitoredResource(input[1], resource_type, identifier, input[2])
    /\ UNCHANGED <<rejected, threads>>
    /\ UNCHANGED elsewhere

OnNext ==
    /\ last = Idle
    /\ \E subject \in subjects :
        \E status \in StatusInputs(subject.monitor_type) : Push(subject, status)
    /\ UNCHANGED <<rejected, threads>>
    /\ UNCHANGED elsewhere

\* The caller has seen the outcome of its call and goes on.
Return ==
    /\ last # Idle
    /\ last' = Idle
    /\ UNCHANGED <<_monitored_resources, _health_status, _readiness_status,
                   _readiness_resolver, subjects, subscribed, processed,
                   rejected, threads>>
    /\ UNCHANGED elsewhere

Next == Register \/ OnNext \/ Return

Spec == Init /\ [][Next]_vars

\* The same calls; the claims on registration and on rejected calls are
\* checked under this specification, the claims on the health aggregate under
\* Spec.
NextRegistry == Register \/ OnNext \/ Return

SpecRegistry == Init /\ [][NextRegistry]_vars

\* The same calls again; the claims on what a call leaves alone and on what a
\* registration returns are checked under this specification.
NextEffects == Register \/ OnNext \/ Return

SpecEffects == Init /\ [][NextEffects]_vars

\* The same calls once more; the claims on what a registration emits and on
\* what a push changes and leaves alone in the aggregates are checked under
\* this specification.
NextUpdates == Register \/ OnNext \/ Return

SpecUpdates == Init /\ [][NextUpdates]_vars

\* The same calls; the claims on the readiness aggregate, on statuses that do
\* not degrade an aggregate and on the values an aggregate takes are checked
\* under this specification.
NextAggregates == Register \/ OnNext \/ Return

SpecAggregates == Init /\ [][NextAggregates]_vars

\* The same calls; the claims on the stored records are checked under this
\* specification.
NextRecords == Register \/ OnNext \/ Return

SpecRecords == Init /\ [][NextRecords]_vars

\* --------------------------------------- endpoints, mixins and application

\* http.HTTPStatus, as the endpoints use it.
OK == 200
SERVICE_UNAVAILABLE == 503

\* api/monitored/health.py: get_health.  The match statement compares the
\* aggregate with the members by value; the default case rewrites the body.
get_health(self, after) ==
    LET health == self.health_status
    IN  IF StrEq(health, HEALTHY)
        THEN Response(HEALTH, OK, health, FALSE, after)
        ELSE IF StrEq(health, UNHEALTHY)
        THEN Response(HEALTH, SERVICE_UNAVAILABLE, health, FALSE, after)
        ELSE Response(HEALTH, SERVICE_UNAVAILABLE, HEALTH_UNKNOWN, FALSE, after)

\* Variant: the status code is taken from the health aggregate.
get_readiness_ReadsHealth(self, after) ==
    IF self.readiness_status = AttributeError
    THEN Response(READINESS, 0, None, TRUE, after)
    ELSE Response(READINESS,
                  IF StrEq(self.health_status, HEALTHY) THEN OK ELSE SERVICE_UNAVAILABLE,
                  self.readiness_status, FALSE, after)

\* api/monitored/readiness.py: get_readiness.  get_readiness_status() raises
\* while the attribute was never assigned, and the request fails.
get_readiness(self, after) ==
    LET readiness == self.readiness_status
    IN  IF readiness = AttributeError
        THEN Response(READINESS, 0, None, TRUE, after)
        ELSE IF StrEq(readiness, READY)
        THEN Response(READINESS, OK, readiness, FALSE, after)
        ELSE IF StrEq(readiness, NOT_READY)
        THEN Response(READINESS, SERVICE_UNAVAILABLE, readiness, FALSE, after)
        ELSE Response(READINESS, SERVICE_UNAVAILABLE, READINESS_UNKNOWN, FALSE, after)

\* application/abstract.py: MONITORED_IDENTIFIER, MONITORED_RESOURCE_TYPE.
MONITORED_IDENTIFIER == "application"
MONITORED_RESOURCE_TYPE == "application"

\* The other objects built on the monitored mixins, by identifier.
MonitoredObjects == {"app"}

\* The attributes the mixins keep on an object: the local copies of the
\* statuses and the handles; AttributeError and NoSubject while the mixin's
\* __init__ has not run.
Monitored(health_status, health_subject, readiness_status, readiness_subject) ==
    [_monitor_health_status |-> health_status,
     _monitor_health_subject |-> health_subject,
     _monitor_readiness_status |-> readiness_status,
     _monitor_readiness_subject |-> readiness_subject]

\* The object `identifier` as the mixins find it.
MonitoredObject(identifier) ==
    IF identifier \in DOMAIN monitored
    THEN monitored[identifier]
    ELSE Monitored(AttributeError, NoSubject, AttributeError, NoSubject)

\* A request to the health endpoint.
GetHealth ==
    /\ response' = get_health(Self, last)
    /\ UNCHANGED <<_monitored_resources, _health_status, _readiness_status,
                   _readiness_resolver, subjects, subscribed, processed,
                   rejected, threads, last, monitored, lifecycle,
                   plugins_default, applications, yaml_data, _match, environ>>

\* A request to the readiness endpoint.
GetReadiness ==
    /\ response' = get_readiness(Self, last)
    /\ UNCHANGED <<_monitored_resources, _health_status, _readiness_status,
                   _readiness_resolver, subjects, subscribed, processed,
                   rejected, threads, last, monitored, lifecycle,
                   plugins_default, applications, yaml_data, _match, environ>>

\* AbstractHealthMonitored.__init__ on the object `identifier`: the local copy,
\* then the registration; when the registration raises so does the
\* constructor and the object is not built.
AbstractHealthMonitoredInit ==
    /\ last = Idle
    /\ \E identifier \in MonitoredObjects, initial_health_status \in StatusInputs(HEALTH) :
        /\ MonitoredObject(identifier)._monitor_health_subject = NoSubject
        /\ LET registered == Registered(Self, HEALTH, MONITORED_RESOURCE_TYPE,
                                        identifier, initial_health_status)
           IN  /\ Store(registered.self)
               /\ subjects' = subjects \cup registered.created
               /\ subscribed' = subscribed \cup registered.created
               /\ processed' = IF registered.raised THEN processed
                               ELSE processed \cup {HEALTH}
               /\ monitored' =
                    IF registered.raised THEN monitored
                    ELSE DictSet(monitored, identifier,
                            [MonitoredObject(identifier) EXCEPT
                                !._monitor_health_status = initial_health_status,
                                !._monitor_health_subject = registered.subject])
               /\ last' = Call("register", HEALTH, MONITORED_RESOURCE_TYPE, identifier,
                               initial_health_status, registered.raised,
                               registered.subject, Before(Self, subjects))
    /\ response' = NoResponse
    /\ UNCHANGED <<rejected, threads, lifecycle, plugins_default, applications,
                   yaml_data, _match, environ>>

\* AbstractReadinessMonitored.__init__ on the object `identifier`.
AbstractReadinessMonitoredInit ==
    /\ last = Idle
    /\ \E identifier \in MonitoredObjects, initial_readiness_status \in StatusInputs(READINESS) :
        /\ MonitoredObject(identifier)._monitor_readiness_subject = NoSubject
        /\ LET registered == Registered(Self, READINESS, MONITORED_RESOURCE_TYPE,
                                        identifier, initial_readiness_status)
           IN  /\ Store(registered.self)
               /\ subjects' = subjects \cup registered.created
               /\ subscribed' = subscribed \cup registered.created
               /\ processed' = IF registered.raised THEN processed
                               ELSE processed \cup {READINESS}
               /\ monitored' =
                    IF registered.raised THEN monitored
                    ELSE DictSet(monitored, identifier,
                            [MonitoredObject(identifier) EXCEPT
                                !._monitor_readiness_status = initial_readiness_status,
                                !._monitor_readiness_subject = registered.subject])
               /\ last' = Call("register", READINESS, MONITORED_RESOURCE_TYPE, identifier,
                               initial_readiness_status, registered.raised,
                               registered.subject, Before(Self, subjects))
    /\ response' = NoResponse
    /\ UNCHANGED <<rejected, threads, lifecycle, plugins_default, applications,
                   yaml_data, _match, environ>>

\* AbstractHealthMonitored.change_health_status: the local copy is set, then
\* the status is pushed through the handle; an exception of the registry
\* reaches the caller.
change_health_status(identifier, new_health_status) ==
    LET pushed == Delivered(Self, subscribed,
                            monitored[identifier]._monitor_health_subject,
                            new_health_status)
    IN  /\ monitored' = [monitored EXCEPT ![identifier]._monitor_health_status =
                            new_health_status]
        /\ Store(pushed.self)
        /\ subscribed' = SubscribedAfter(subscribed,
                            monitored[identifier]._monitor_health_subject, pushed)
        /\ processed' = IF pushed.raised THEN processed ELSE processed \cup {HEALTH}
        /\ last' = Call("push", HEALTH, "None", identifier, new_health_status,
                        pushed.raised, NoSubject, Before(Self, subjects))
        /\ UNCHANGED subjects

\* AbstractReadinessMonitored.change_readiness_status
change_readiness_status(identifier, new_readiness_status) ==
    LET pushed == Delivered(Self, subscribed,
                            monitored[identifier]._monitor_readiness_subject,
                            new_readiness_status)
    IN  /\ monitored' = [monitored EXCEPT ![identifier]._monitor_readiness_status =
                            new_readiness_status]
        /\ Store(pushed.self)
        /\ subscribed' = SubscribedAfter(subscribed,
                            monitored[identifier]._monitor_readiness_subject, pushed)
        /\ processed' = IF pushed.raised THEN processed ELSE processed \cup {READINESS}
        /\ last' = Call("push", READINESS, "None", identifier, new_readiness_status,
                        pushed.raised, NoSubject, Before(Self, subjects))
        /\ UNCHANGED subjects

\* The owner of a health monitored object changes its health status.
ChangeHealthStatus ==
    /\ last = Idle
    /\ \E identifier \in MonitoredObjects \cap DOMAIN monitored :
        /\ monitored[identifier]._monitor_health_subject # NoSubject
        /\ \E new_health_status \in StatusInputs(HEALTH) :
              change_health_status(identifier, new_health_status)
    /\ response' = NoResponse
    /\ UNCHANGED <<rejected, threads, lifecycle, plugins_default, applications,
                   yaml_data, _match, environ>>

\* The owner of a readiness monitored object changes its readiness status.
ChangeReadinessStatus ==
    /\ last = Idle
    /\ \E identifier \in MonitoredObjects \cap DOMAIN monitored :
        /\ monitored[identifier]._monitor_readiness_subject # NoSubject
        /\ \E new_readiness_status \in StatusInputs(READINESS) :
              change_readiness_status(identifier, new_readiness_status)
    /\ response' = NoResponse
    /\ UNCHANGED <<rejected, threads, lifecycle, plugins_default, applications,
                   yaml_data, _match, environ>>

\* Variant: the application is registered as ready from the start.
ApplicationInitialReadiness_Ready == READY

\* AbstractApplication.__init__: the initial_readiness_status it passes.
ApplicationInitialReadiness == NOT_READY

\* AbstractApplication.__init__: a new MonitoredService, the two mixins'
\* __init__ under the application's identifier, then
\* change_health_status(HEALTHY).
ApplicationInit ==
    /\ last = Idle
    /\ lifecycle = "none"
    /\ monitored = EmptyDict
    /\ _monitored_resources = EmptyDict
    /\ subjects = {}
    /\ LET health == Registered(Self, HEALTH, MONITORED_RESOURCE_TYPE,
                                MONITORED_IDENTIFIER, HEALTHY)
           readiness == Registered(health.self, READINESS, MONITORED_RESOURCE_TYPE,
                                   MONITORED_IDENTIFIER, ApplicationInitialReadiness)
           created == health.created \cup readiness.created
           pushed == Delivered(readiness.self, subscribed \cup created,
                               health.subject, HEALTHY)
       IN  /\ Store(pushed.self)
           /\ subjects' = subjects \cup created
           /\ subscribed' = SubscribedAfter(subscribed \cup created, health.subject, pushed)
           /\ processed' = processed \cup {HEALTH, READINESS}
           /\ monitored' = DictSet(monitored, MONITORED_IDENTIFIER,
                                   Monitored(HEALTHY, health.subject,
                                             ApplicationInitialReadiness,
                                             readiness.subject))
           /\ last' = Call("construct", "None", MONITORED_RESOURCE_TYPE,
                           MONITORED_IDENTIFIER, None,
                           health.raised \/ readiness.raised \/ pushed.raised,
                           NoSubject, Before(Self, subjects))
    /\ lifecycle' = "constructed"
    /\ response' = NoResponse
    /\ UNCHANGED <<rejected, threads, plugins_default, applications,
                   yaml_data, _match, environ>>

\* AbstractApplication._on_startup
OnStartup ==
    /\ last = Idle
    /\ lifecycle = "constructed"
    /\ change_readiness_status(MONITORED_IDENTIFIER, READY)
    /\ lifecycle' = "started"
    /\ response' = NoResponse
    /\ UNCHANGED <<rejected, threads, plugins_default, applications,
                   yaml_data, _match, environ>>

NextApplication ==
    \/ ApplicationInit
    \/ OnStartup
    \/ AbstractHealthMonitoredInit
    \/ AbstractReadinessMonitoredInit
    \/ ChangeHealthStatus
    \/ ChangeReadinessStatus
    \/ GetHealth
    \/ GetReadiness
    \/ Return

SpecApplication == Init /\ [][NextApplication]_vars

\* ------------------------------------------------------------------ plugins

\* Bounds: the applications constructed, and the plugins passed to one
\* constructor.
MaxApplications == 2
MaxPlugins == 2

\* What the plugins and the YAML reader never touch: the registry, the
\* objects built on it and the endpoints.
monitoring == <<_monitored_resources, _health_status, _readiness_status,
                _readiness_resolver, subjects, subscribed, processed, rejected,
                threads, last, monitored, lifecycle, response>>

\* abstracts/plugins.py: PluginPriorityEnum (an IntEnum).
IMMEDIATE == 0
NORMAL == 1
DELAYED == 2
PluginPriorityEnum == {IMMEDIATE, NORMAL, DELAYED}

\* A plugin (PluginProtocol): its name, its priority, and whether its load()
\* returns an inject-configure callable or None.
Plugin(PLUGIN_NAME, PLUGIN_PRIORITY, configures) ==
    [PLUGIN_NAME |-> PLUGIN_NAME, PLUGIN_PRIORITY |-> PLUGIN_PRIORITY,
     configures |-> configures]

\* The plugins passed to the constructors: the logging plugin (IMMEDIATE,
\* load returns None), the OpenTelemetry plugin (NORMAL, load returns a
\* callable) and a DELAYED plugin whose load returns a callable.
Plugins ==
    {Plugin("logging_plugin", IMMEDIATE, FALSE),
     Plugin("opentelemetry_plugin", NORMAL, TRUE),
     Plugin("delayed_plugin", DELAYED, TRUE)}

\* The lists of plugins a constructor may be passed.
PluginLists == UNION {[1..n -> Plugins] : n \in 0..MaxPlugins}

\* The `plugins` argument of the constructor: None or a list.
PluginsArgument(is_none, list) == [is_none |-> is_none, list |-> list]
NoPlugins == PluginsArgument(TRUE, << >>)
PluginsInputs == {NoPlugins} \cup {PluginsArgument(FALSE, list) : list \in PluginLists}

\* A dict, in insertion order: a sequence of (key, value) items.
Item(key, value) == [key |-> key, value |-> value]
DictKeys(d) == {d[i].key : i \in DOMAIN d}

\* defaultdict(list): d[key] of a missing key inserts an empty list.
DefaultDictGetItem(d, key) ==
    IF key \in DictKeys(d) THEN d ELSE Append(d, Item(key, << >>))

\* d[key], the key being present.
DictGetItem(d, key) == d[CHOOSE i \in DOMAIN d : d[i].key = key].value

\* defaultdict(list): d[key].append(element)
DefaultDictAppend(d, key, element) ==
    LET present == DefaultDictGetItem(d, key)
    IN  [i \in DOMAIN present |->
            IF present[i].key = key
            THEN Item(key, Append(present[i].value, element))
            ELSE present[i]]

\* AbstractPluginsApplication._order_plugins_by_priority, from the dict
\* `ordered_plugins` on.
RECURSIVE OrderPluginsByPriority(_, _)
OrderPluginsByPriority(ordered_plugins, plugins) ==
    IF plugins = << >>
    THEN ordered_plugins
    ELSE OrderPluginsByPriority(
            DefaultDictAppend(ordered_plugins, Head(plugins).PLUGIN_PRIORITY,
                              Head(plugins)),
            Tail(plugins))

\* An AbstractPluginsApplication instance: the `plugins` argument it was
\* constructed with, its attributes, and what _configure_inject installed on
\* the binder it was last given.
Application(plugins, _plugins, _plugins_ordered, _plugins_ordered_inject_configure, installed) ==
    [plugins |-> plugins, _plugins |-> _plugins,
     _plugins_ordered |-> _plugins_ordered,
     _plugins_ordered_inject_configure |-> _plugins_ordered_inject_configure,
     installed |-> installed]

\* AbstractPluginsApplication.__init__: self.plugins_default is the list of
\* the class, which extend() changes in place.
PluginsApplicationInit ==
    /\ Len(applications) < MaxApplications
    /\ \E plugins \in PluginsInputs :
        LET extended == IF ~ plugins.is_none
                        THEN plugins_default \o plugins.list
                        ELSE plugins_default
        IN  /\ plugins_default' = extended
            /\ applications' =
                 Append(applications,
                        Application(plugins, extended,
                                    OrderPluginsByPriority(<< >>, extended),
                                    << >>, << >>))
    /\ UNCHANGED monitoring
    /\ UNCHANGED <<yaml_data, _match, environ>>

\* The loop of AbstractPluginsApplication.load, from the dict
\* `inject_configure` on: the callable a plugin's load() returns is appended
\* under the priority; the callable is identified by its plugin.
RECURSIVE LoadPlugins(_, _, _)
LoadPlugins(inject_configure, plugins, priority) ==
    IF plugins = << >>
    THEN inject_configure
    ELSE LoadPlugins(
            IF Head(plugins).configures
            THEN DefaultDictAppend(inject_configure, priority, Head(plugins))
            ELSE inject_configure,
            Tail(plugins), priority)

\* AbstractPluginsApplication.load
load(self, priority) ==
    LET ordered == DefaultDictGetItem(self._plugins_ordered, priority)
    IN  [self EXCEPT
            !._plugins_ordered = ordered,
            !._plugins_ordered_inject_configure =
                LoadPlugins(@, DictGetItem(ordered, priority), priority)]

\* AbstractPluginsApplication._configure_inject: the callables it installs on
\* the binder, in the order of the dict's items.
RECURSIVE ConfigureInject(_)
ConfigureInject(inject_configure) ==
    IF inject_configure = << >>
    THEN << >>
    ELSE Head(inject_configure).value \o ConfigureInject(Tail(inject_configure))

\* The application in use: the one constructed last (inject keeps one
\* injector for the process).
Current == Len(applications)

\* load(priority) is called on the application in use, no callable of the
\* priority having been recorded yet.
Load ==
    /\ applications # << >>
    /\ \E priority \in PluginPriorityEnum :
        /\ priority \notin DictKeys(applications[Current]._plugins_ordered_inject_configure)
        /\ applications' = [applications EXCEPT ![Current] = load(@, priority)]
    /\ UNCHANGED monitoring
    /\ UNCHANGED <<plugins_default, yaml_data, _match, environ>>

\* inject calls _configure_inject of the application in use with a new binder.
Configure ==
    /\ applications # << >>
    /\ applications' =
         [applications EXCEPT ![Current].installed =
            ConfigureInject(applications[Current]._plugins_ordered_inject_configure)]
    /\ UNCHANGED monitoring
    /\ UNCHANGED <<plugins_default, yaml_data, _match, environ>>

NextPlugins == PluginsApplicationInit \/ Load \/ Configure

SpecPlugins == Init /\ [][NextPlugins]_vars

\* -------------------------------------------------------------- YAML reader

\* Bound: the length of the string values read from the YAML file.
MaxLen == 4

\* Strings are sequences of characters.  The characters of the values: the
\* ones the pattern names and two of the class [A-Za-z0-9\-\_].
Alphabet == {"$", "{", "}", ":", "A", "B"}
NameCharacters == {"A", "B"}

\* The string values of the YAML file: every string up to the bound, and the
\* nested placeholder of the unit test, ${A:${B}}.
YamlStrings ==
    UNION {[1..n -> Alphabet] : n \in 0..MaxLen}
    \cup {<<"$", "{", "A", ":", "$", "{", "B", "}", "}">>}

\* The environments: A and B are each unset or set to a value, which may hold
\* a placeholder.
Unset == <<"unset">>
ValuesOfA ==
    {Unset, << >>, <<"B">>, <<"$", "{", "A", "}">>, <<"$", "{", "B", "}">>}
ValuesOfB == {Unset, <<"A">>, <<"$", "{", "A", "}">>}
Environments ==
    {[name \in {n \in {<<"A">>, <<"B">>} :
                    (IF n = <<"A">> THEN a ELSE b) # Unset} |->
        IF name = <<"A">> THEN a ELSE b] : a \in ValuesOfA, b \in ValuesOfB}

\* os.getenv(key, default)
getenv(env, key, default) == IF key \in DOMAIN env THEN env[key] ELSE default

\* The length of the longest run of characters of [A-Za-z0-9\-\_] that starts
\* at position i of s.
Run(s, i) ==
    CHOOSE n \in 0..(Len(s) + 1 - i) :
        /\ \A k \in 0..(n - 1) : s[i + k] \in NameCharacters
        /\ i + n <= Len(s) => s[i + n] \notin NameCharacters

\* The match of \${([A-Za-z0-9\-\_]+):?([A-Za-z0-9\-\_]*)?} at position i of
\* s, if there is one: "${", a name, then "}" or ":" with a default and "}".
MatchAt(s, i) ==
    IF ~ (i + 1 <= Len(s) /\ s[i] = "$" /\ s[i + 1] = "{")
    THEN Match("none", << >>, << >>, << >>)
    ELSE LET name == Run(s, i + 2)
             j == i + 2 + name
         IN  IF name = 0 \/ j > Len(s)
             THEN Match("none", << >>, << >>, << >>)
             ELSE IF s[j] = "}"
             THEN Match("found", SubSeq(s, i, j), SubSeq(s, i + 2, j - 1), << >>)
             ELSE IF s[j] # ":"
             THEN Match("none", << >>, << >>, << >>)
             ELSE LET e == j + 1 + Run(s, j + 1)
                  IN  IF e <= Len(s) /\ s[e] = "}"
                      THEN Match("found", SubSeq(s, i, e), SubSeq(s, i + 2, j - 1),
                                 SubSeq(s, j + 1, e - 1))
                      ELSE Match("none", << >>, << >>, << >>)

\* re.search(yaml_data): the leftmost match, or None.
Search(s) ==
    IF \E i \in 1..Len(s) : MatchAt(s, i).state = "found"
    THEN MatchAt(s, CHOOSE i \in 1..Len(s) :
                        /\ MatchAt(s, i).state = "found"
                        /\ \A k \in 1..(i - 1) : MatchAt(s, k).state # "found")
    ELSE Match("none", << >>, << >>, << >>)

\* str.replace(old, new): every occurrence of old, from the left, old being
\* non-empty.
RECURSIVE Replace(_, _, _)
Replace(s, old, new) ==
    IF Len(s) < Len(old)
    THEN s
    ELSE IF SubSeq(s, 1, Len(old)) = old
    THEN new \o Replace(SubSeq(s, Len(old) + 1, Len(s)), old, new)
    ELSE <<Head(s)>> \o Replace(Tail(s), old, new)

\* A string value of the YAML file is about to be injected, in some
\* environment.
InitYaml ==
    /\ Constructed
    /\ yaml_data \in YamlStrings
    /\ _match = Pending
    /\ environ \in Environments

\* _inject_environment_variables, the loop: _match = self.re.search(yaml_data),
\* and the break when it is None.
SearchStep ==
    /\ _match.state = "pending"
    /\ _match' = Search(yaml_data)
    /\ UNCHANGED monitoring
    /\ UNCHANGED <<plugins_default, applications, yaml_data, environ>>

\* _inject_environment_variables, the loop: the matched text is replaced by
\* the variable's value or the default, and the loop goes round.
ReplaceStep ==
    /\ _match.state = "found"
    /\ yaml_data' = Replace(yaml_data, _match.group0,
                            getenv(environ, _match.group1, _match.group2))
    /\ _match' = Pending
    /\ UNCHANGED monitoring
    /\ UNCHANGED <<plugins_default, applications, environ>>

NextYaml == SearchStep \/ ReplaceStep

\* The loop runs in one thread with nothing to wait for: a step that can be
\* taken is taken.
SpecYaml == InitYaml /\ [][NextYaml]_vars /\ WF_vars(NextYaml)

\* -------------------------------------------- the methods called directly

\* MonitoredService._validate_association_of_type_and_status called directly,
\* as the unit tests do: it returns or raises and touches no field.
ValidateCall ==
    /\ last = Idle
    /\ \E monitor_type \in MonitorTypeInputs, status \in AllStatuses :
          last' = Call("validate", monitor_type, "None", "None", status,
                       ~ ValidateAssociationOfTypeAndStatus(monitor_type, status),
                       NoSubject, Before(Self, subjects))
    /\ UNCHANGED <<_monitored_resources, _health_status, _readiness_status,
                   _readiness_resolver, subjects, subscribed, processed,
                   rejected, threads>>
    /\ UNCHANGED elsewhere

\* MonitoredService._handle_status_update called directly with an update for
\* any identifier, registered or not.
HandleStatusUpdateCall ==
    /\ last = Idle
    /\ \E identifier \in Identifiers, monitor_type \in MonitorTypeEnum :
        \E status \in StatusInputs(monitor_type) :
            LET handled == HandleStatusUpdate(Self,
                              MonitoredStatusUpdate(identifier, monitor_type, status))
            IN  /\ Store(handled.self)
                /\ processed' = IF handled.raised THEN processed
                                ELSE processed \cup {monitor_type}
                /\ last' = Call("update", monitor_type, "None", identifier, status,
                                handled.raised, NoSubject, Before(Self, subjects))
    /\ UNCHANGED <<subjects, subscribed, rejected, threads>>
    /\ UNCHANGED elsewhere

\* register_monitored_resource by the owner of the first identifier.
RegisterFirst ==
    /\ last = Idle
    /\ \E input \in RegistrationInputs :
        \E resource_type \in ResourceTypeInputs(IdentifierNames[1]) :
            RegisterMonitoredResource(input[1], resource_type, IdentifierNames[1],
                                      input[2])
    /\ UNCHANGED <<rejected, threads>>
    /\ UNCHANGED elsewhere

\* A push through a handle; the handle is remembered when the push has raised.
OnNextRecorded ==
    /\ last = Idle
    /\ \E subject \in subjects :
        \E status \in StatusInputs(subject.monitor_type) :
            /\ Push(subject, status)
            /\ rejected' = IF last'.raised THEN rejected \cup {subject} ELSE rejected
    /\ UNCHANGED threads
    /\ UNCHANGED elsewhere

NextUnit ==
    RegisterFirst \/ OnNextRecorded \/ ValidateCall \/ HandleStatusUpdateCall \/ Return

\* One owner registers its resource and pushes; the internal methods are also
\* called directly.
SpecUnit == Init /\ [][NextUnit]_vars

\* ------------------------------------------------- pushes from threads

\* No thread is inside _handle_status_update.
AllReturned == \A t \in Threads : threads[t] = IdleThread

\* The handles a thread pushes through: each thread owns one resource.
HandlesOf(t) ==
    IF t \in DOMAIN IdentifierNames
    THEN {s \in subscribed : s.identifier = IdentifierNames[t]}
    ELSE {}

\* Registrations happen while no thread is pushing.
RegisterAtStartup == AllReturned /\ Register

\* A thread pushes a status of the handle's own enum: on_next runs the lambda
\* and _handle_status_update validates, finds the resource and sets its status
\* field; the thread can be preempted before it recomputes the aggregate.
ThreadStore(t) ==
    /\ last = Idle
    /\ threads[t] = IdleThread
    /\ \E subject \in HandlesOf(t) :
        \E status \in {x \in StatusInputs(subject.monitor_type) :
                          ValidateAssociationOfTypeAndStatus(subject.monitor_type, x)} :
            /\ _monitored_resources' =
                  IF subject.monitor_type = HEALTH
                  THEN [_monitored_resources EXCEPT
                            ![subject.identifier].health_status = status]
                  ELSE [_monitored_resources EXCEPT
                            ![subject.identifier].readiness_status = status]
            /\ threads' = [threads EXCEPT
                              ![t] = Thread("stored", subject.monitor_type, None)]
    /\ UNCHANGED <<_health_status, _readiness_status, _readiness_resolver,
                   subjects, subscribed, processed, rejected, last>>
    /\ UNCHANGED elsewhere

\* _calculate_health_status / _calculate_readiness_status, right-hand side:
\* the resolver runs over the resource map as the thread finds it.
ThreadResolve(t) ==
    /\ threads[t].pc = "stored"
    /\ threads' = [threads EXCEPT
                      ![t] = Thread("resolved", threads[t].monitor_type,
                                    IF threads[t].monitor_type = HEALTH
                                    THEN HealthStatusServiceResolver(_monitored_resources)
                                    ELSE ReadinessStatusServiceResolver(_monitored_resources))]
    /\ UNCHANGED <<_monitored_resources, _health_status, _readiness_status,
                   _readiness_resolver, subjects, subscribed, processed,
                   rejected, last>>
    /\ UNCHANGED elsewhere

\* _calculate_health_status / _calculate_readiness_status, the assignment of
\* the resolved value to the cached aggregate; then the push returns.
ThreadAssign(t) ==
    /\ threads[t].pc = "resolved"
    /\ IF threads[t].monitor_type = HEALTH
       THEN /\ _health_status' = threads[t].resolved
            /\ UNCHANGED _readiness_status
       ELSE /\ _readiness_status' = threads[t].resolved
            /\ UNCHANGED _health_status
    /\ processed' = processed \cup {threads[t].monitor_type}
    /\ threads' = [threads EXCEPT ![t] = IdleThread]
    /\ UNCHANGED <<_monitored_resources, _readiness_resolver, subjects,
                   subscribed, rejected, last>>
    /\ UNCHANGED elsewhere

ThreadsStore == \E t \in Threads : ThreadStore(t)
ThreadsResolve == \E t \in Threads : ThreadResolve(t)
ThreadsAssign == \E t \in Threads : ThreadAssign(t)

NextThreads == RegisterAtStartup \/ Return \/ ThreadsStore \/ ThreadsResolve \/ ThreadsAssign

\* Resources are registered, then their owners push from threads of their own,
\* with no lock around _handle_status_update.
SpecThreads == Init /\ [][NextThreads]_vars

\* ------------------------------------------------------------------ claims

\* The identifiers registered under a monitor type, and what is stored for them.
HealthTracked == {k \in DOMAIN _monitored_resources :
                    HEALTH \in _monitored_resources[k].types}
ReadinessTracked == {k \in DOMAIN _monitored_resources :
                        READINESS \in _monitored_resources[k].types}
HealthOf(k) == _monitored_resources[k].health_status
ReadinessOf(k) == _monitored_resources[k].readiness_status

\* C1: once an update of a monitor type has been processed, the cached
\* aggregate the getter of that type returns is the result of running the
\* type's resolver over the current resource map.
C1_CachedAggregateIsResolved ==
    /\ HEALTH \in processed =>
          get_health_status = HealthStatusServiceResolver(_monitored_resources)
    /\ READINESS \in processed =>
          get_readiness_status = ReadinessStatusServiceResolver(_monitored_resources)

\* C1 witness: updates of both types were processed, the last one a push that
\* changed a stored health status and with it the health aggregate.
C1_Witness ==
    /\ processed = {HEALTH, READINESS}
    /\ last.op = "push" /\ ~ last.raised /\ last.monitor_type = HEALTH
    /\ last.before.self.health_status = HEALTHY
    /\ get_health_status = UNHEALTHY
    /\ get_readiness_status = NOT_READY

\* C2: whenever some health monitored resource is UNHEALTHY, get_health_status
\* returns UNHEALTHY, whatever the other health monitored resources report.
C2_AnyUnhealthyGivesUnhealthy ==
    (\E k \in HealthTracked : HealthOf(k) = UNHEALTHY)
        => get_health_status = UNHEALTHY

\* C2 witness: two health monitored resources, one UNHEALTHY and one HEALTHY.
C2_Witness ==
    /\ \E k \in HealthTracked : HealthOf(k) = UNHEALTHY
    /\ \E k \in HealthTracked : HealthOf(k) = HEALTHY
    /\ get_health_status = UNHEALTHY

\* The registered resources are all registered under HEALTH only and all
\* report HEALTHY.
AllHealthOnlyAndHealthy ==
    \A k \in DOMAIN _monitored_resources :
        /\ _monitored_resources[k].types = {HEALTH}
        /\ HealthOf(k) = HEALTHY

\* C3 as stated: in every state where all registered resources are HEALTH only
\* and HEALTHY, get_health_status returns HEALTHY (the registry without any
\* resource included).
C3_AllHealthyGivesHealthy_Original ==
    AllHealthOnlyAndHealthy => get_health_status = HEALTHY

\* C3 amended: in every state where at least one resource is registered, all
\* registered resources are HEALTH only and all report HEALTHY,
\* get_health_status returns HEALTHY.
C3_AllHealthyGivesHealthy ==
    (DOMAIN _monitored_resources # {} /\ AllHealthOnlyAndHealthy)
        => get_health_status = HEALTHY

\* C3 witness: every identifier is registered, under HEALTH only, and HEALTHY,
\* after one of them had been UNHEALTHY.
C3_Witness ==
    /\ DOMAIN _monitored_resources = Identifiers
    /\ AllHealthOnlyAndHealthy
    /\ last.op = "push" /\ last.before.self.health_status = UNHEALTHY
    /\ get_health_status = HEALTHY

\* C4: once a READINESS registration has succeeded, get_readiness_status
\* returns NOT_READY exactly when some readiness monitored resource is
\* NOT_READY, and READY otherwise.
C4_ReadinessAggregate ==
    ReadinessTracked # {} =>
        IF \E k \in ReadinessTracked : ReadinessOf(k) = NOT_READY
        THEN get_readiness_status = NOT_READY
        ELSE get_readiness_status = READY

\* C4 witness: READY is returned while the readiness monitored resources
\* report UNKNOWN and DISABLED, after the aggregate had been NOT_READY.
C4_Witness ==
    /\ \E k \in ReadinessTracked : ReadinessOf(k) = READINESS_UNKNOWN
    /\ \E k \in ReadinessTracked : ReadinessOf(k) = READINESS_DISABLED
    /\ last.before.self.readiness_status = NOT_READY
    /\ get_readiness_status = READY

\* C5: a stored status of UNKNOWN or DISABLED does not degrade the aggregate:
\* after a health update, if every health monitored resource reports HEALTHY,
\* UNKNOWN or DISABLED then get_health_status returns HEALTHY; the same for
\* readiness with READY.
C5_UnknownDoesNotDegrade ==
    /\ (/\ HEALTH \in processed
        /\ \A k \in HealthTracked :
              HealthOf(k) \in {HEALTHY, HEALTH_UNKNOWN, HEALTH_DISABLED})
          => get_health_status = HEALTHY
    /\ (/\ READINESS \in processed
        /\ \A k \in ReadinessTracked :
              ReadinessOf(k) \in {READY, READINESS_UNKNOWN, READINESS_DISABLED})
          => get_readiness_status = READY

\* C5 witness: a health monitored resource reports UNKNOWN, another DISABLED,
\* and the health aggregate is HEALTHY.
C5_Witness ==
    /\ HEALTH \in processed
    /\ \E k \in HealthTracked : HealthOf(k) = HEALTH_UNKNOWN
    /\ \E k \in HealthTracked : HealthOf(k) = HEALTH_DISABLED
    /\ get_health_status = HEALTHY

\* What the call that has just returned found: the service before it.
Found == last.before.self

\* The status stored for (identifier, monitor type) in a resource map.
StoredStatus(monitored_resources, identifier, monitor_type) ==
    IF monitor_type = HEALTH
    THEN monitored_resources[identifier].health_status
    ELSE monitored_resources[identifier].readiness_status

\* The handle stored for (identifier, monitor type) in a resource map.
StoredSubject(monitored_resources, identifier, monitor_type) ==
    IF monitor_type = HEALTH
    THEN monitored_resources[identifier].health_subject
    ELSE monitored_resources[identifier].readiness_subject

\* The other monitor type.
OtherType(monitor_type) == IF monitor_type = HEALTH THEN READINESS ELSE HEALTH

\* (identifier, monitor type) is registered in a resource map.
PairRegistered(monitored_resources, identifier, monitor_type) ==
    /\ identifier \in DOMAIN monitored_resources
    /\ monitor_type \in monitored_resources[identifier].types

\* C6: a registration or push under READINESS leaves what get_health_status
\* returns as it was, and one under HEALTH leaves what get_readiness_status
\* returns as it was; whatever status it has, a resource registered under
\* READINESS only is ignored by the health resolver (the result is the same
\* without it), and one registered under HEALTH only by the readiness resolver.
C6_OtherKindUntouched ==
    /\ (last.op \in {"register", "push"} /\ last.monitor_type = READINESS)
          => get_health_status = Found.health_status
    /\ (last.op \in {"register", "push"} /\ last.monitor_type = HEALTH)
          => get_readiness_status = Found.readiness_status
    /\ \A k \in DOMAIN _monitored_resources :
          /\ _monitored_resources[k].types = {READINESS} =>
                HealthStatusServiceResolver(_monitored_resources)
                = HealthStatusServiceResolver(
                    [j \in DOMAIN _monitored_resources \ {k} |->
                        _monitored_resources[j]])
          /\ _monitored_resources[k].types = {HEALTH} =>
                ReadinessStatusServiceResolver(_monitored_resources)
                = ReadinessStatusServiceResolver(
                    [j \in DOMAIN _monitored_resources \ {k} |->
                        _monitored_resources[j]])

\* C6 witness: a resource registered under READINESS only has just been pushed
\* NOT_READY, which changed the readiness aggregate, while another resource
\* keeps the health aggregate UNHEALTHY.
C6_Witness ==
    /\ last.op = "push" /\ ~ last.raised /\ last.monitor_type = READINESS
    /\ _monitored_resources[last.identifier].types = {READINESS}
    /\ Found.readiness_status = READY
    /\ get_readiness_status = NOT_READY
    /\ get_health_status = UNHEALTHY

\* C7: when register_monitored_resource has returned, the stored status of the
\* registered (identifier, monitor type) is the initial status and the cached
\* aggregate of that type reflects it: it is the resolver's result, UNHEALTHY
\* after an initial UNHEALTHY and NOT_READY after an initial NOT_READY.
C7_RegistrationEmitsInitialStatus ==
    (last.op = "register" /\ ~ last.raised) =>
        /\ PairRegistered(_monitored_resources, last.identifier, last.monitor_type)
        /\ StoredStatus(_monitored_resources, last.identifier, last.monitor_type)
              = last.status
        /\ last.monitor_type = HEALTH =>
              /\ get_health_status
                    = HealthStatusServiceResolver(_monitored_resources)
              /\ last.status = UNHEALTHY => get_health_status = UNHEALTHY
        /\ last.monitor_type = READINESS =>
              /\ get_readiness_status
                    = ReadinessStatusServiceResolver(_monitored_resources)
              /\ last.status = NOT_READY => get_readiness_status = NOT_READY

\* C7 witness: a HEALTH registration with initial UNHEALTHY has just returned
\* and turned a HEALTHY aggregate UNHEALTHY.
C7_Witness ==
    /\ last.op = "register" /\ ~ last.raised
    /\ last.monitor_type = HEALTH /\ last.status = UNHEALTHY
    /\ Found.health_status = HEALTHY
    /\ get_health_status = UNHEALTHY

\* C8: when a valid push through a handle has returned, the stored status of
\* the handle's (identifier, monitor type) is the pushed status and the
\* aggregate is computed from it; the aggregate is not sticky: it is HEALTHY
\* (READY) again as soon as no health (readiness) monitored resource is
\* UNHEALTHY (NOT_READY).
C8_PushIsAppliedAndRecovers ==
    (last.op = "push" /\ ~ last.raised) =>
        /\ StoredStatus(_monitored_resources, last.identifier, last.monitor_type)
              = last.status
        /\ last.monitor_type = HEALTH =>
              /\ get_health_status
                    = HealthStatusServiceResolver(_monitored_resources)
              /\ (\A k \in HealthTracked : HealthOf(k) # UNHEALTHY)
                    => get_health_status = HEALTHY
        /\ last.monitor_type = READINESS =>
              /\ get_readiness_status
                    = ReadinessStatusServiceResolver(_monitored_resources)
              /\ (\A k \in ReadinessTracked : ReadinessOf(k) # NOT_READY)
                    => get_readiness_status = READY

\* C8 witness: db1 is the one health monitored resource, it was UNHEALTHY and
\* so was the aggregate, and HEALTHY has just been pushed: the aggregate is
\* HEALTHY again.
C8_Witness ==
    /\ last.op = "push" /\ ~ last.raised
    /\ last.monitor_type = HEALTH /\ last.identifier = "db1"
    /\ last.status = HEALTHY
    /\ HealthTracked = {"db1"}
    /\ Found.monitored_resources["db1"].health_status = UNHEALTHY
    /\ Found.health_status = UNHEALTHY
    /\ get_health_status = HEALTHY

\* C9: register_monitored_resource for an (identifier, monitor type) that is
\* already registered raises, whatever resource type and initial status it is
\* given, returns no handle and leaves the registry as it was: the resources
\* (types, statuses, handles), the handles in existence and both aggregates.
C9_DuplicateRegistrationRejected ==
    (/\ last.op = "register"
     /\ PairRegistered(Found.monitored_resources, last.identifier, last.monitor_type))
        => /\ last.raised
           /\ last.returned = NoSubject
           /\ _monitored_resources = Found.monitored_resources
           /\ subjects = last.before.subjects
           /\ get_health_status = Found.health_status
           /\ get_readiness_status = Found.readiness_status

\* C9 witness: a second registration of a registered pair, with a valid initial
\* status and a resource type that both differ from what is stored, has raised.
C9_Witness ==
    /\ last.op = "register" /\ last.raised
    /\ PairRegistered(Found.monitored_resources, last.identifier, last.monitor_type)
    /\ ValidateAssociationOfTypeAndStatus(last.monitor_type, last.status)
    /\ last.status
          # StoredStatus(_monitored_resources, last.identifier, last.monitor_type)
    /\ last.resource_type # _monitored_resources[last.identifier].resource_type

\* C10: registering a registered identifier under the other monitor type
\* succeeds and extends its record: the registry holds the same identifiers,
\* the record's types are {HEALTH, READINESS}, and the status and handle stored
\* for the first type are as before; afterwards a push under one type leaves
\* the status stored for the other type and the other aggregate as they were.
C10_OtherKindMerges ==
    /\ (/\ last.op = "register"
        /\ last.monitor_type \in MonitorTypeEnum
        /\ ValidateAssociationOfTypeAndStatus(last.monitor_type, last.status)
        /\ PairRegistered(Found.monitored_resources, last.identifier,
                          OtherType(last.monitor_type))
        /\ ~ PairRegistered(Found.monitored_resources, last.identifier,
                            last.monitor_type))
          => /\ ~ last.raised
             /\ DOMAIN _monitored_resources = DOMAIN Found.monitored_resources
             /\ _monitored_resources[last.identifier].types = {HEALTH, READINESS}
             /\ StoredStatus(_monitored_resources, last.identifier,
                             OtherType(last.monitor_type))
                   = StoredStatus(Found.monitored_resources, last.identifier,
                                  OtherType(last.monitor_type))
             /\ StoredSubject(_monitored_resources, last.identifier,
                              OtherType(last.monitor_type))
                   = StoredSubject(Found.monitored_resources, last.identifier,
                                   OtherType(last.monitor_type))
    /\ (/\ last.op = "push" /\ ~ last.raised
        /\ _monitored_resources[last.identifier].types = {HEALTH, READINESS})
          => /\ StoredStatus(_monitored_resources, last.identifier,
                             OtherType(last.monitor_type))
                   = StoredStatus(Found.monitored_resources, last.identifier,
                                  OtherType(last.monitor_type))
             /\ last.monitor_type = HEALTH
                   => get_readiness_status = Found.readiness_status
             /\ last.monitor_type = READINESS
                   => get_health_status = Found.health_status

\* C10 witness: an identifier registered under HEALTH with UNHEALTHY has just
\* been registered under READINESS with READY; it carries both statuses.
C10_Witness ==
    /\ last.op = "register" /\ ~ last.raised /\ last.monitor_type = READINESS
    /\ last.identifier \in DOMAIN Found.monitored_resources
    /\ _monitored_resources[last.identifier].types = {HEALTH, READINESS}
    /\ HealthOf(last.identifier) = UNHEALTHY
    /\ ReadinessOf(last.identifier) = READY

\* A status that is a member of the status enum of the monitor type.
OwnStatus(monitor_type, status) ==
    \/ monitor_type = HEALTH /\ status \in HealthStatusEnum
    \/ monitor_type = READINESS /\ status \in ReadinessStatusEnum

\* C11: a push through a handle of a status that is no member of the handle's
\* own status enum raises to the pusher, and leaves the stored statuses of that
\* resource and of every other resource, and both aggregates, as they were.
C11_WrongEnumPushRejected ==
    (last.op = "push" /\ ~ OwnStatus(last.monitor_type, last.status))
        => /\ last.raised
           /\ _monitored_resources = Found.monitored_resources
           /\ get_health_status = Found.health_status
           /\ get_readiness_status = Found.readiness_status

\* C11 witness: with two resources registered, READINESS_UNKNOWN pushed through
\* the HEALTH handle of a resource whose health status is HEALTHY has raised.
C11_Witness ==
    /\ last.op = "push" /\ last.raised
    /\ last.monitor_type = HEALTH /\ last.status = READINESS_UNKNOWN
    /\ Cardinality(DOMAIN _monitored_resources) >= 2
    /\ HealthOf(last.identifier) = HEALTHY

\* C12: a registration with a monitor type that is no member of MonitorTypeEnum,
\* or with an initial status that is no member of the monitor type's status
\* enum, raises and changes nothing: no record is created or extended, no
\* status is set, no handle is created or returned, both aggregates stay.
C12_InvalidRegistrationChangesNothing ==
    (/\ last.op = "register"
     /\ \/ last.monitor_type \notin MonitorTypeEnum
        \/ ~ OwnStatus(last.monitor_type, last.status))
        => /\ last.raised
           /\ last.returned = NoSubject
           /\ _monitored_resources = Found.monitored_resources
           /\ subjects = last.before.subjects
           /\ get_health_status = Found.health_status
           /\ get_readiness_status = Found.readiness_status

\* C12 witness: an identifier registered under HEALTH only has been registered
\* under READINESS with the health status HEALTHY, and the call has raised.
C12_Witness ==
    /\ last.op = "register" /\ last.raised
    /\ last.monitor_type = READINESS /\ last.status = HEALTHY
    /\ last.identifier \in DOMAIN Found.monitored_resources
    /\ Found.monitored_resources[last.identifier].types = {HEALTH}

\* C16: every stored resource has at least one monitor type, has a health
\* status (not None) exactly when HEALTH is among its types, and has a
\* readiness status (not None) exactly when READINESS is among its types.
C16_StatusPresentIffTyped ==
    \A k \in DOMAIN _monitored_resources :
        /\ _monitored_resources[k].types # {}
        /\ HealthOf(k) # None <=> HEALTH \in _monitored_resources[k].types
        /\ ReadinessOf(k) # None <=> READINESS \in _monitored_resources[k].types

\* C16 witness: after a push, one resource is registered under HEALTH only and
\* has no readiness status, and another is registered under both types.
C16_Witness ==
    /\ last.op = "push" /\ ~ last.raised
    /\ \E k \in DOMAIN _monitored_resources :
          /\ _monitored_resources[k].types = {HEALTH}
          /\ ReadinessOf(k) = None
    /\ \E k \in DOMAIN _monitored_resources :
          _monitored_resources[k].types = {HEALTH, READINESS}

\* C17: the resource type of a record is the one given by the registration
\* that created it; no later call changes it, neither a registration under the
\* other monitor type that gives a different resource type, nor a push.
C17_ResourceTypeFixed ==
    /\ \A k \in DOMAIN Found.monitored_resources :
          /\ k \in DOMAIN _monitored_resources
          /\ _monitored_resources[k].resource_type
                = Found.monitored_resources[k].resource_type
    /\ (/\ last.op = "register" /\ ~ last.raised
        /\ last.identifier \notin DOMAIN Found.monitored_resources)
          => _monitored_resources[last.identifier].resource_type = last.resource_type

\* C17 witness: a registered identifier has been registered under its other
\* monitor type with a resource type that differs from the stored one.
C17_Witness ==
    /\ last.op = "register" /\ ~ last.raised
    /\ last.identifier \in DOMAIN Found.monitored_resources
    /\ last.resource_type # _monitored_resources[last.identifier].resource_type

\* C18: the registry only grows: whatever a call found registered (an
\* identifier, and each monitor type of it) is registered when the call has
\* returned or raised, whether a registration or a push, accepted or rejected;
\* and a registration of a pair that is registered is rejected.
C18_RegistryOnlyGrows ==
    /\ \A k \in DOMAIN Found.monitored_resources :
          /\ k \in DOMAIN _monitored_resources
          /\ Found.monitored_resources[k].types \subseteq _monitored_resources[k].types
    /\ last.before.subjects \subseteq subjects
    /\ (/\ last.op = "register"
        /\ PairRegistered(Found.monitored_resources, last.identifier,
                          last.monitor_type))
          => /\ last.raised
             /\ PairRegistered(_monitored_resources, last.identifier,
                               last.monitor_type)

\* C18 witness: with every identifier registered under both monitor types, a
\* DISABLED status has been pushed and accepted.
C18_Witness ==
    /\ last.op = "push" /\ ~ last.raised
    /\ last.status.value = "disabled"
    /\ DOMAIN _monitored_resources = Identifiers
    /\ \A k \in Identifiers : _monitored_resources[k].types = {HEALTH, READINESS}

\* C15: in every reachable state, a fresh service and a service with HEALTH
\* registrations only included, get_health_status and get_readiness_status
\* return a member of their status enum without raising, and before any
\* update of a monitor type the value returned for that type is UNKNOWN.
C15_GettersReturnMember ==
    /\ get_health_status \in HealthStatusEnum
    /\ get_readiness_status \in ReadinessStatusEnum
    /\ HEALTH \notin processed => get_health_status = HEALTH_UNKNOWN
    /\ READINESS \notin processed => get_readiness_status = READINESS_UNKNOWN

\* C13: the validation accepts a pair (monitor_type, status) exactly when
\* monitor_type is HEALTH and status is a member of HealthStatusEnum, or
\* monitor_type is READINESS and status is a member of ReadinessStatusEnum;
\* every other pair raises, UNKNOWN and DISABLED of the other enum and every
\* monitor type that is no member of MonitorTypeEnum included.
C13_ValidationAcceptsOwnPairsOnly ==
    last.op = "validate"
        => (~ last.raised <=>
               \/ last.monitor_type = HEALTH
                    /\ last.status \in {HEALTHY, UNHEALTHY, HEALTH_UNKNOWN, HEALTH_DISABLED}
               \/ last.monitor_type = READINESS
                    /\ last.status \in {READY, NOT_READY, READINESS_UNKNOWN,
                                        READINESS_DISABLED})

\* C13 witness: the validation of READINESS with the DISABLED of
\* HealthStatusEnum has raised.
C13_Witness ==
    /\ last.op = "validate" /\ last.raised
    /\ last.monitor_type = READINESS /\ last.status = HEALTH_DISABLED

\* C14: _handle_status_update of an update whose identifier has no record
\* raises and changes nothing: no record is created for the identifier and
\* both aggregates are as they were.
C14_UnknownIdentifierRejected ==
    (last.op = "update" /\ last.identifier \notin DOMAIN Found.monitored_resources)
        => /\ last.raised
           /\ last.identifier \notin DOMAIN _monitored_resources
           /\ _monitored_resources = Found.monitored_resources
           /\ get_health_status = Found.health_status
           /\ get_readiness_status = Found.readiness_status

\* C14 witness: with another identifier registered, an update with a valid
\* pair for an identifier that has no record has raised.
C14_Witness ==
    /\ last.op = "update" /\ last.raised
    /\ OwnStatus(last.monitor_type, last.status)
    /\ last.identifier \notin DOMAIN _monitored_resources
    /\ DOMAIN _monitored_resources # {}

\* The handle of a pair is among those a push through which has raised.
PushRejectedBefore(identifier, monitor_type) ==
    \E s \in rejected : s.identifier = identifier /\ s.monitor_type = monitor_type

\* C19: the subscription of the service to a handle is permanent: every handle
\* created stays subscribed, and a valid push through a handle, also one a
\* push through which was rejected before, is delivered: it does not raise,
\* the status is stored and the aggregate of its type is recomputed.
C19_SubscriptionPermanent ==
    /\ subscribed = subjects
    /\ (last.op = "push" /\ OwnStatus(last.monitor_type, last.status))
          => /\ ~ last.raised
             /\ last.monitor_type \in processed
             /\ StoredStatus(_monitored_resources, last.identifier,
                             last.monitor_type) = last.status
             /\ last.monitor_type = HEALTH
                   => get_health_status
                        = HealthStatusServiceResolver(_monitored_resources)
             /\ last.monitor_type = READINESS
                   => get_readiness_status
                        = ReadinessStatusServiceResolver(_monitored_resources)

\* C19 witness: through a HEALTH handle a push through which had raised, with
\* HEALTHY stored and aggregated, UNHEALTHY has been pushed; it is what is
\* stored and what the aggregate has become.
C19_Witness ==
    /\ last.op = "push" /\ ~ last.raised
    /\ PushRejectedBefore(last.identifier, last.monitor_type)
    /\ last.monitor_type = HEALTH /\ last.status = UNHEALTHY
    /\ Found.monitored_resources[last.identifier].health_status = HEALTHY
    /\ Found.health_status = HEALTHY
    /\ HealthOf(last.identifier) = UNHEALTHY
    /\ get_health_status = UNHEALTHY

\* C20: whatever the interleaving of pushes issued from different threads to
\* different resources, once every push has returned the cached aggregate of
\* each monitor type is the result of the type's resolver over the final
\* statuses of the resources: no stale aggregate has overwritten a newer one.
C20_NoStaleAggregate ==
    (AllReturned /\ last = Idle)
        => /\ HEALTH \in processed =>
                 get_health_status = HealthStatusServiceResolver(_monitored_resources)
           /\ READINESS \in processed =>
                 get_readiness_status
                    = ReadinessStatusServiceResolver(_monitored_resources)

\* C24: a push through the handle of (identifier, monitor type) changes only
\* the status of that type in that resource: the status of the other type,
\* the types, the resource type and the handles of the resource, every other
\* resource, and the set of registered identifiers stay as they were; and a
\* successful registration of a new pair leaves the statuses stored for every
\* pair registered before as they were.
C24_PushChangesOneField ==
    /\ last.op = "push" =>
          /\ DOMAIN _monitored_resources = DOMAIN Found.monitored_resources
          /\ \A k \in DOMAIN _monitored_resources \ {last.identifier} :
                _monitored_resources[k] = Found.monitored_resources[k]
          /\ \/ _monitored_resources[last.identifier]
                   = [Found.monitored_resources[last.identifier]
                         EXCEPT !.health_status = HealthOf(last.identifier)]
                /\ last.monitor_type = HEALTH
             \/ _monitored_resources[last.identifier]
                   = [Found.monitored_resources[last.identifier]
                         EXCEPT !.readiness_status = ReadinessOf(last.identifier)]
                /\ last.monitor_type = READINESS
    /\ (last.op = "register" /\ ~ last.raised) =>
          \A k \in DOMAIN Found.monitored_resources :
              \A monitor_type \in Found.monitored_resources[k].types :
                  StoredStatus(_monitored_resources, k, monitor_type)
                     = StoredStatus(Found.monitored_resources, k, monitor_type)

\* C24 witness: with two resources registered under both monitor types, a
\* push has changed the health status of one of them.
C24_Witness ==
    /\ last.op = "push" /\ ~ last.raised /\ last.monitor_type = HEALTH
    /\ Cardinality(DOMAIN _monitored_resources) >= 2
    /\ \A k \in DOMAIN _monitored_resources :
          _monitored_resources[k].types = {HEALTH, READINESS}
    /\ HealthOf(last.identifier)
          # Found.monitored_resources[last.identifier].health_status

\* C25: a registration that passes the validation of monitor type and status
\* and the duplicate check completes and returns a handle: the resource is in
\* the map when the initial status is emitted, so the emission is not rejected;
\* the handle returned is the one stored for the pair.
C25_ValidRegistrationCompletes ==
    (/\ last.op = "register"
     /\ OwnStatus(last.monitor_type, last.status)
     /\ ~ PairRegistered(Found.monitored_resources, last.identifier,
                         last.monitor_type))
        => /\ ~ last.raised
           /\ last.returned # NoSubject
           /\ last.returned \in subjects \ last.before.subjects
           /\ PairRegistered(_monitored_resources, last.identifier, last.monitor_type)
           /\ StoredSubject(_monitored_resources, last.identifier, last.monitor_type)
                 = last.returned

\* C25 witness: the first registration of an identifier has returned a handle.
C25_Witness ==
    /\ last.op = "register" /\ ~ last.raised
    /\ last.identifier \notin DOMAIN Found.monitored_resources
    /\ last.returned \in subjects

\* C26: get_health_status never returns DISABLED, and once a HEALTH
\* registration has succeeded it returns HEALTHY or UNHEALTHY only, never
\* UNKNOWN, whatever statuses are pushed; the same for get_readiness_status
\* with READY and NOT_READY once a READINESS registration has succeeded.
C26_AggregateValues ==
    /\ get_health_status # HEALTH_DISABLED
    /\ get_readiness_status # READINESS_DISABLED
    /\ HealthTracked # {} => get_health_status \in {HEALTHY, UNHEALTHY}
    /\ ReadinessTracked # {} => get_readiness_status \in {READY, NOT_READY}

\* C26 witness: every resource is registered under both monitor types and
\* reports DISABLED or UNKNOWN for both, after a push.
C26_Witness ==
    /\ last.op = "push" /\ ~ last.raised
    /\ DOMAIN _monitored_resources = Identifiers
    /\ \A k \in Identifiers :
          /\ _monitored_resources[k].types = {HEALTH, READINESS}
          /\ HealthOf(k) \in {HEALTH_DISABLED, HEALTH_UNKNOWN}
          /\ ReadinessOf(k) \in {READINESS_DISABLED, READINESS_UNKNOWN}
    /\ \E k \in Identifiers : HealthOf(k) = HEALTH_DISABLED


\* The registry holds the single resource "app", registered under READINESS
\* with the resource type APPLICATION.
SingleApp(monitored_resources) ==
    /\ DOMAIN monitored_resources = {"app"}
    /\ monitored_resources["app"].types = {READINESS}
    /\ monitored_resources["app"].resource_type = "application"

\* C21: with the single resource ("app", READINESS, APPLICATION, NOT_READY)
\* registered, a request to the readiness endpoint that follows the
\* registration is answered 503 with NOT_READY, and a request that follows a
\* push of READY through the handle is answered 200 with READY.
C21_ReadinessEndpointFollowsApp ==
    (/\ response.endpoint = READINESS
     /\ SingleApp(_monitored_resources)
     /\ response.after.identifier = "app"
     /\ ~ response.after.raised)
        => /\ (response.after.op = "register" /\ response.after.status = NOT_READY)
                => /\ ~ response.raised
                   /\ response.status_code = SERVICE_UNAVAILABLE
                   /\ response.body = NOT_READY
           /\ (response.after.op = "push" /\ response.after.status = READY)
                => /\ ~ response.raised
                   /\ response.status_code = OK
                   /\ response.body = READY

\* C21 witness: "app" was NOT_READY, READY was pushed and the endpoint has
\* answered 200.
C21_Witness ==
    /\ response.endpoint = READINESS
    /\ SingleApp(_monitored_resources)
    /\ response.after.op = "push"
    /\ response.after.identifier = "app"
    /\ response.after.status = READY
    /\ ~ response.after.raised
    /\ SingleApp(response.after.before.self.monitored_resources)
    /\ response.after.before.self.monitored_resources["app"].readiness_status = NOT_READY
    /\ response.after.before.self.readiness_status = NOT_READY
    /\ response.status_code = OK

\* C22: every answer of the health endpoint is 200 when the health aggregate
\* is HEALTHY and 503 otherwise, every answer of the readiness endpoint is 200
\* when the readiness aggregate is READY and 503 otherwise, and the value in
\* the body is the aggregate's value.
C22_EndpointsAnswerAggregate ==
    /\ response.endpoint = HEALTH
        => /\ ~ response.raised
           /\ response.status_code =
                IF StrEq(get_health_status, HEALTHY) THEN OK ELSE SERVICE_UNAVAILABLE
           /\ response.body.value = get_health_status.value
    /\ response.endpoint = READINESS
        => /\ ~ response.raised
           /\ response.status_code =
                IF StrEq(get_readiness_status, READY) THEN OK ELSE SERVICE_UNAVAILABLE
           /\ response.body.value = get_readiness_status.value

\* The call is the application's startup handler, which has returned: the
\* only push through the application's readiness handle.
StartupReturned(call) ==
    /\ call.op = "push"
    /\ call.identifier = MONITORED_IDENTIFIER
    /\ call.monitor_type = READINESS

\* A readiness resource other than the application is NOT_READY.
OtherNotReady ==
    \E k \in ReadinessTracked \ {MONITORED_IDENTIFIER} :
        StrEq(ReadinessOf(k), NOT_READY)

\* A health resource is UNHEALTHY.
SomeUnhealthy == \E k \in HealthTracked : StrEq(HealthOf(k), UNHEALTHY)

\* What C23 says of the construction and of the startup handler: when the
\* constructor returns, "application" is registered under HEALTH with HEALTHY
\* and under READINESS with NOT_READY and the aggregates are HEALTHY and
\* NOT_READY; until startup the readiness aggregate stays NOT_READY; when the
\* startup handler returns the readiness aggregate is READY unless another
\* readiness resource is NOT_READY.
ApplicationRegistersAndStarts ==
    /\ last.op = "construct"
        => /\ ~ last.raised
           /\ MONITORED_IDENTIFIER \in DOMAIN _monitored_resources
           /\ _monitored_resources[MONITORED_IDENTIFIER].types = {HEALTH, READINESS}
           /\ _monitored_resources[MONITORED_IDENTIFIER].resource_type = "application"
           /\ HealthOf(MONITORED_IDENTIFIER) = HEALTHY
           /\ ReadinessOf(MONITORED_IDENTIFIER) = NOT_READY
           /\ get_health_status = HEALTHY
           /\ get_readiness_status = NOT_READY
    /\ lifecycle = "constructed" => get_readiness_status = NOT_READY
    /\ StartupReturned(last)
        => /\ ~ last.raised
           /\ lifecycle = "started"
           /\ ReadinessOf(MONITORED_IDENTIFIER) = READY
           /\ ~ OtherNotReady => get_readiness_status = READY

\* C23 (as stated): the construction and the startup handler do the above,
\* and a request to either endpoint that follows the startup handler, no
\* other readiness resource being NOT_READY, is answered 200.
C23_ApplicationLifecycle_Original ==
    /\ ApplicationRegistersAndStarts
    /\ (StartupReturned(response.after) /\ ~ OtherNotReady)
        => (response.endpoint \in {HEALTH, READINESS} => response.status_code = OK)

\* C23 (amended): the construction and the startup handler do the above; a
\* request to the readiness endpoint that follows the startup handler, no other
\* readiness resource being NOT_READY, is answered 200, and so is a request to
\* the health endpoint when no health resource is UNHEALTHY.
C23_ApplicationLifecycle ==
    /\ ApplicationRegistersAndStarts
    /\ (StartupReturned(response.after) /\ ~ OtherNotReady)
        => /\ response.endpoint = READINESS => response.status_code = OK
           /\ (response.endpoint = HEALTH /\ ~ SomeUnhealthy)
                => response.status_code = OK

\* C23 witness: the startup handler has run on an application that was
\* NOT_READY, another object is registered under both types, and the health
\* endpoint has answered 200.
C23_Witness ==
    /\ lifecycle = "started"
    /\ StartupReturned(response.after)
    /\ response.after.before.self.readiness_status = NOT_READY
    /\ get_readiness_status = READY
    /\ "app" \in HealthTracked \cap ReadinessTracked
    /\ response.endpoint = HEALTH
    /\ response.status_code = OK

\* C27: for every object built on the monitored mixins, the local copy of
\* each status the object is monitored for equals the status the registry
\* stores for the object's identifier.
C27_LocalCopyIsStoredStatus ==
    \A identifier \in DOMAIN monitored :
        /\ monitored[identifier]._monitor_health_subject # NoSubject
            => monitored[identifier]._monitor_health_status = HealthOf(identifier)
        /\ monitored[identifier]._monitor_readiness_subject # NoSubject
            => monitored[identifier]._monitor_readiness_status = ReadinessOf(identifier)

\* C28: the inject-configure callables an application installs are installed
\* in priority order, IMMEDIATE before NORMAL before DELAYED, whatever the
\* order of the plugins in the list and of the calls of load(priority).
C28_InstalledInPriorityOrder ==
    \A a \in DOMAIN applications :
        \A i, j \in DOMAIN applications[a].installed :
            i < j => applications[a].installed[i].PLUGIN_PRIORITY
                        <= applications[a].installed[j].PLUGIN_PRIORITY

\* C29: the plugins passed to a constructor are recorded on that instance
\* only: the class's plugins_default stays as declared, and every instance
\* holds the declared defaults followed by the plugins it was passed (the
\* defaults alone when it was passed none), each once.
C29_PluginsOfInstanceOnly ==
    /\ plugins_default = PluginsDefaultDeclared
    /\ \A a \in DOMAIN applications :
          applications[a]._plugins =
              PluginsDefaultDeclared \o applications[a].plugins.list

\* C30: the injection of environment variables into a string value ends, for
\* every value and every environment: the loop reaches the search that finds
\* no placeholder.
C30_InjectionTerminates == <>(_match.state = "none")


====
